---- MODULE Spec2Model ----
(***************************************************************************)
(* Multipath flow accumulation (src/multipath_accum.py): labelFlats,       *)
(* flatThing and the sweep of multipath, over small elevation grids.       *)
(*                                                                         *)
(* Elevations are integers.  Accumulated values are exact rationals        *)
(* <<numerator, denominator>> in lowest terms; <<1, 0>> stands for the     *)
(* floating-point inf and <<0, 0>> for nan, so that a division by zero is  *)
(* a value the sweep could store, as it is in numpy.  Rounding of the      *)
(* 64-bit floats is not modelled.                                          *)
(***************************************************************************)
EXTENDS Integers, Sequences, FiniteSets, TLC

\* ---------------------------------------------------------------- bounds
\* elevations range over 0..MaxElev
MaxElev == 2

\* the inputs explored: <<rows, columns, odd cells>>; a grid of the shape
\* rows x columns is a plateau in which at most that many cells differ
Shapes == {<<3, 5, 3>>, <<5, 3, 2>>, <<4, 4, 2>>, <<5, 5, 1>>}

\* ------------------------------------------------------------- rationals
RECURSIVE GCD(_, _)
GCD(a, b) == IF b = 0 THEN a ELSE GCD(b, a % b)

NaN == <<0, 0>>
Inf == <<1, 0>>
Zero == <<0, 1>>
One == <<1, 1>>

IsFinite(x) == x[2] # 0

\* lowest terms; n/0 is inf for n > 0 and nan for n = 0
Norm(n, d) ==
    IF d = 0 THEN (IF n = 0 THEN NaN ELSE Inf)
    ELSE LET g == GCD(n, d) IN <<n \div g, d \div g>>

FromInt(n) == <<n, 1>>

RAdd(x, y) ==
    IF x = NaN \/ y = NaN THEN NaN
    ELSE IF x = Inf \/ y = Inf THEN Inf
    ELSE Norm(x[1] * y[2] + y[1] * x[2], x[2] * y[2])

RMul(x, y) == Norm(x[1] * y[1], x[2] * y[2])

RDiv(x, y) == RMul(x, <<y[2], y[1]>>)

RECURSIVE RSum(_, _)
\* the sum of f over the finite set S
RSum(f, S) ==
    IF S = {} THEN Zero
    ELSE LET c == CHOOSE c \in S : TRUE IN RAdd(f[c], RSum(f, S \ {c}))

\* ------------------------------------------------------------ grid shape
\* source.shape of a grid, a function on (0..R-1) \X (0..C-1)
Rows(g) == Cardinality({c[1] : c \in DOMAIN g})
Cols(g) == Cardinality({c[2] : c \in DOMAIN g})

Cells(R, C) == (0..(R - 1)) \X (0..(C - 1))

\* the cells of the slice [1:-1, 1:-1]
Interior(g) ==
    LET R == Rows(g)
        C == Cols(g)
    IN {c \in DOMAIN g : c[1] >= 1 /\ c[1] <= R - 2 /\ c[2] >= 1 /\ c[2] <= C - 2}

Border(g) == DOMAIN g \ Interior(g)

Adjacent(c, d) == c # d /\ c[1] - d[1] \in -1..1 /\ c[2] - d[2] \in -1..1

\* the cells of the 3x3 window centred on c that lie on the grid, c included
Window(g, c) == {d \in DOMAIN g : d = c \/ Adjacent(c, d)}

Neighbours(g, c) == Window(g, c) \ {c}

\* ------------------------------------------------------------ labelFlats
\* NeighbourCount counting the neighbours strictly above the cell
NeighbourCountStrict(source) ==
    LET inner == Interior(source)
    IN [c \in DOMAIN source |->
          IF c \in inner
          THEN Cardinality({n \in Neighbours(source, c) : source[n] > source[c]})
          ELSE 0]

\* out: for an interior cell the number of its 8 neighbours >= it, else 0
NeighbourCount(source) ==
    LET inner == Interior(source)
    IN [c \in DOMAIN source |->
          IF c \in inner
          THEN Cardinality({n \in Neighbours(source, c) : source[n] >= source[c]})
          ELSE 0]

\* FlatMask accepting a cell with one lower neighbour
FlatMaskSeven(source) ==
    LET out == NeighbourCount(source) IN {c \in DOMAIN source : out[c] >= 7}

\* flat = out==8
FlatMask(source) ==
    LET out == NeighbourCount(source) IN {c \in DOMAIN source : out[c] = 8}

\* Connected with the 4 edge neighbours only
Connected4(c, d) ==
    (c[1] = d[1] /\ c[2] - d[2] \in {-1, 1}) \/ (c[2] = d[2] /\ c[1] - d[1] \in {-1, 1})

\* skimage's connectivity for a 2-D image when none is given: the 8 neighbours
Connected(c, d) == Adjacent(c, d)

RECURSIVE Component(_, _)
\* the connected component of the mask that holds the cells S
Component(S, mask) ==
    LET T == S \cup {d \in mask : \E c \in S : Connected(c, d)}
    IN IF T = S THEN S ELSE Component(T, mask)

\* position of a cell in the raster (row-major) scan
Raster(c, C) == c[1] * C + c[2]

FirstCell(K, C) == CHOOSE c \in K : \A d \in K : Raster(c, C) <= Raster(d, C)

\* measure.label(mask, background=False, return_num=True): components are
\* numbered 1, 2, ... in the order the raster scan meets them
Label(mask, g) ==
    LET C == Cols(g)
        comps == {Component({c}, mask) : c \in mask}
        first == [K \in comps |-> Raster(FirstCell(K, C), C)]
        id == [K \in comps |-> 1 + Cardinality({J \in comps : first[J] < first[K]})]
    IN <<[c \in DOMAIN g |->
            IF c \in mask THEN id[CHOOSE K \in comps : c \in K] ELSE 0],
         Cardinality(comps)>>

labelFlats(source) == Label(FlatMask(source), source)

\* ------------------------------------------------------------- flatThing
\* Dilate by two cells
DilateWide(F, g) ==
    {d \in DOMAIN g : \E c \in F : d[1] - c[1] \in -2..2 /\ d[2] - c[2] \in -2..2}

\* Dilate with the cross-shaped structuring element
DilateCross(F, g) ==
    {d \in DOMAIN g : \E c \in F : d = c \/ Connected4(c, d)}

\* nd.binary_dilation(F, structure=np.ones((3,3)))
Dilate(F, g) == {d \in DOMAIN g : \E c \in F : d = c \/ Adjacent(c, d)}

\* flatThing dividing the zonal sum by the number of exterior neighbours
flatThingRing(e_c, flats, accum, elev) ==
    LET F == {c \in DOMAIN flats : flats[c] = e_c[2]}
        cSum == RSum(accum, F)
        accum1 == [c \in DOMAIN accum |-> IF c \in F THEN cSum ELSE accum[c]]
        ring == Dilate(F, flats) \ F
        share == RDiv(cSum, FromInt(Cardinality(ring)))
    IN [c \in DOMAIN accum |->
          IF c \in ring
          THEN (IF elev[c] <= e_c[1] THEN RAdd(accum1[c], share) ELSE accum1[c])
          ELSE accum1[c]]

\* flatThing adding share * (elev <= e) in place of selecting with np.where
flatThingMasked(e_c, flats, accum, elev) ==
    LET F == {c \in DOMAIN flats : flats[c] = e_c[2]}
        cSum == RSum(accum, F)
        accum1 == [c \in DOMAIN accum |-> IF c \in F THEN cSum ELSE accum[c]]
        ring == Dilate(F, flats) \ F
        npour == Cardinality({c \in ring : elev[c] <= e_c[1]})
        share == RDiv(cSum, FromInt(npour))
    IN [c \in DOMAIN accum |->
          IF c \in ring
          THEN RAdd(accum1[c],
                    RMul(share, IF elev[c] <= e_c[1] THEN One ELSE Zero))
          ELSE accum1[c]]

flatThing(e_c, flats, accum, elev) ==
    LET F == {c \in DOMAIN flats : flats[c] = e_c[2]}
        cSum == RSum(accum, F)
        accum1 == [c \in DOMAIN accum |-> IF c \in F THEN cSum ELSE accum[c]]
        ring == Dilate(F, flats) \ F
        npour == Cardinality({c \in ring : elev[c] <= e_c[1]})
        share == RDiv(cSum, FromInt(npour))
    IN [c \in DOMAIN accum |->
          IF c \in ring
          THEN (IF elev[c] <= e_c[1] THEN RAdd(accum1[c], share) ELSE accum1[c])
          ELSE accum1[c]]

\* ------------------------------------------------------------- multipath
\* the interior slice flattened row by row
FlattenC(g) ==
    LET nr == Rows(g) - 2
        nc == Cols(g) - 2
    IN [i \in 0..(nr * nc - 1) |-> g[<<1 + (i \div nc), 1 + (i % nc)>>]]

\* x.flatten('F') of the interior slice: index i is row i % nrows, column
\* i / nrows of the slice
FlattenF(g) ==
    LET nr == Rows(g) - 2
        nc == Cols(g) - 2
    IN [i \in 0..(nr * nc - 1) |-> g[<<1 + (i % nr), 1 + (i \div nr)>>]]

\* the order ['e'] alone
KeyLessElev(a, b) == a[1] < b[1]

\* the order ['e','c'] of the structured array
KeyLess(a, b) == a[1] < b[1] \/ (a[1] = b[1] /\ a[2] < b[2])

\* np.argsort(combo, order=['e','c'], kind='mergesort'): stable
ArgSort(cmb) ==
    LET n == Cardinality(DOMAIN cmb)
        pos == [i \in DOMAIN cmb |->
                  Cardinality({j \in DOMAIN cmb :
                      \/ KeyLess(cmb[j], cmb[i])
                      \/ (~KeyLess(cmb[i], cmb[j]) /\ j < i)})]
    IN [p \in 0..(n - 1) |-> CHOOSE i \in DOMAIN cmb : pos[i] = p]

\* s taken in its own order
NotReversed(s) == s

\* s[::-1]
Reversed(s) ==
    LET n == Cardinality(DOMAIN s) IN [p \in 0..(n - 1) |-> s[n - 1 - p]]

\* the corner win[0,0] taken for the centre
CentreCorner(i, nrows) == <<i % nrows, i \div nrows>>

\* y = i % nrows, x = i / nrows; the centre win[1,1] of elev[y:y+3, x:x+3]
Centre(i, nrows) == <<(i % nrows) + 1, (i \div nrows) + 1>>

\* the absolute difference, higher cells included
DiffAbs(elev, c) ==
    [d \in Window(elev, c) |->
        IF elev[d] < elev[c] THEN elev[c] - elev[d] ELSE elev[d] - elev[c]]

\* diff = np.where(win < win[1,1], win[1,1] - win, 0)
Diff(elev, c) ==
    [d \in Window(elev, c) |-> IF elev[d] < elev[c] THEN elev[c] - elev[d] ELSE 0]

RECURSIVE ISum(_, _)
ISum(f, S) ==
    IF S = {} THEN 0
    ELSE LET c == CHOOSE c \in S : TRUE IN f[c] + ISum(f, S \ {c})

\* Distribute leaving nothing in the centre
DistributeMove(accum, elev, c) ==
    LET diff == Diff(elev, c)
        total == ISum(diff, DOMAIN diff)
    IN [d \in DOMAIN accum |->
          IF d = c THEN Zero
          ELSE IF d \in DOMAIN diff
          THEN RAdd(accum[d], RMul(RDiv(FromInt(diff[d]), FromInt(total)), accum[c]))
          ELSE accum[d]]

\* accum[y:y+3, x:x+3] += diff / diff.sum() * accum[y+1, x+1]
Distribute(accum, elev, c) ==
    LET diff == Diff(elev, c)
        total == ISum(diff, DOMAIN diff)
    IN [d \in DOMAIN accum |->
          IF d \in DOMAIN diff
          THEN RAdd(accum[d], RMul(RDiv(FromInt(diff[d]), FromInt(total)), accum[c]))
          ELSE accum[d]]

None == <<>>

\* truth value of curC: None is false, a record of combo is true unless
\* all its fields are zero
Truthy(cur) == cur # None /\ (cur[1] # 0 \/ cur[2] # 0)

\* ---------------------------------------------------------------- inputs
RECURSIVE UpTo(_, _)
\* the subsets of S with at most n elements
UpTo(S, n) ==
    IF n = 0 THEN {{}}
    ELSE LET P == UpTo(S, n - 1) IN P \cup {T \cup {c} : T \in P, c \in S}

\* a plateau of elevation base in which the cells of DOMAIN odd differ
Plateau(R, C, base, odd) ==
    [c \in Cells(R, C) |-> IF c \in DOMAIN odd THEN odd[c] ELSE base]

\* the inputs: the plateaus of every shape, with every choice of odd cells
IsInput(g) ==
    \E sh \in Shapes, base \in 0..MaxElev :
        \E S \in UpTo(Cells(sh[1], sh[2]), sh[3]) :
            \E odd \in [S -> (0..MaxElev) \ {base}] :
                g = Plateau(sh[1], sh[2], base, odd)

\* ----------------------------------------------------------------- state
VARIABLES
    elev,        \* the DEM handed to multipath
    flats,       \* the labelled flats
    top,         \* the number of labels
    combo,       \* (elevation, flat id) of the interior cells, column-major
    indexArray,  \* the argsort of combo
    nrows,       \* elev.shape[0] - 2
    accum,       \* the flow accumulation
    curC,        \* the current flat: None or a record of combo
    k,           \* how many entries of indexArray[::-1] the loop has taken
    pc,          \* "start", "loop" or "done"
    resolved     \* history: the flatThing calls made so far

vars == <<elev, flats, top, combo, indexArray, nrows, accum, curC, k, pc, resolved>>

Init ==
    /\ IsInput(elev)
    /\ flats = <<>>
    /\ top = 0
    /\ combo = <<>>
    /\ indexArray = <<>>
    /\ nrows = 0
    /\ accum = <<>>
    /\ curC = None
    /\ k = 0
    /\ pc = "start"
    /\ resolved = <<>>

\* lines 116-125: label, sort, initialise
Setup ==
    /\ pc = "start"
    /\ LET lab == labelFlats(elev)
           cmb == LET flatArray == FlattenF(elev)
                      flatFlats == FlattenF(lab[1])
                  IN [i \in DOMAIN flatArray |-> <<flatArray[i], flatFlats[i]>>]
       IN /\ flats' = lab[1]
          /\ top' = lab[2]
          /\ combo' = cmb
          /\ indexArray' = ArgSort(cmb)
    /\ nrows' = Rows(elev) - 2
    /\ accum' = [c \in DOMAIN elev |-> One]
    /\ curC' = None
    /\ k' = 0
    /\ pc' = "loop"
    /\ UNCHANGED <<elev, resolved>>

NCells == Cardinality(DOMAIN combo)

InLoop == pc = "loop" /\ k < NCells

\* the i of this iteration of "for i in indexArray[::-1]"
CurI == Reversed(indexArray)[k]

\* the record a flatThing call leaves in the history
Call(cur) ==
    [e |-> cur[1], c |-> cur[2],
     sum |-> RSum(accum, {m \in DOMAIN flats : flats[m] = cur[2]})]

\* lines 127-132: a flat cell of another region than the current one
FlatSwitch ==
    /\ InLoop
    /\ combo[CurI][2] # 0
    /\ Truthy(curC) /\ curC[2] # combo[CurI][2]
    /\ accum' = flatThing(curC, flats, accum, elev)
    /\ resolved' = Append(resolved, Call(curC))
    /\ curC' = combo[CurI]
    /\ k' = k + 1
    /\ UNCHANGED <<elev, flats, top, combo, indexArray, nrows, pc>>

\* lines 127-129, 134-136: a flat cell of the current region, or of a new one
FlatTrack ==
    /\ InLoop
    /\ combo[CurI][2] # 0
    /\ ~(Truthy(curC) /\ curC[2] # combo[CurI][2])
    /\ curC' = combo[CurI]
    /\ k' = k + 1
    /\ UNCHANGED <<elev, flats, top, combo, indexArray, nrows, accum, pc, resolved>>

\* lines 137-140: an ordinary cell closes the current flat
CloseFlat ==
    /\ InLoop
    /\ combo[CurI][2] = 0
    /\ Truthy(curC)
    /\ accum' = flatThing(curC, flats, accum, elev)
    /\ resolved' = Append(resolved, Call(curC))
    /\ curC' = None
    /\ UNCHANGED <<elev, flats, top, combo, indexArray, nrows, k, pc>>

\* lines 137-138, 142-149: an ordinary cell passes its flow on
Ordinary ==
    /\ InLoop
    /\ combo[CurI][2] = 0
    /\ ~Truthy(curC)
    /\ accum' = Distribute(accum, elev, Centre(CurI, nrows))
    /\ k' = k + 1
    /\ UNCHANGED <<elev, flats, top, combo, indexArray, nrows, curC, pc, resolved>>

\* line 150
Return ==
    /\ pc = "loop"
    /\ k = NCells
    /\ pc' = "done"
    /\ UNCHANGED <<elev, flats, top, combo, indexArray, nrows, accum, curC, k, resolved>>

Next == Setup \/ FlatSwitch \/ FlatTrack \/ CloseFlat \/ Ordinary \/ Return

Spec == Init /\ [][Next]_vars

\* ------------------------------------------------------- notions of the claims
\* the member cells of flat region f
Members(f) == {c \in DOMAIN flats : flats[c] = f}

\* the flat ids flatThing has been called for
ResolvedIds == {resolved[j].c : j \in 1..Len(resolved)}

\* the visiting order, indexArray[::-1]
Order == Reversed(indexArray)

\* the cell the p-th entry of the visiting order stands for
CellAt(p) == <<1 + (Order[p] % (Rows(elev) - 2)), 1 + (Order[p] \div (Rows(elev) - 2))>>

\* the cells the loop has finished with
Visited == {CellAt(p) : p \in 0..(k - 1)}

\* ------------------------------------------------------------------- C1
\* C1: when multipath returns, every flat region has been resolved by a
\* flatThing call; a region still open when the visiting order is exhausted
\* gets one final call.
C1_EveryFlatResolvedAtReturn ==
    pc = "done" => \A f \in 1..top : f \in ResolvedIds

\* ------------------------------------------------------------------- C2
\* C2: when the sweep returns, all member cells of every flat region hold the
\* same value, the zonal sum taken when the region was resolved.
C2_MembersHoldZonalSumAtReturn ==
    pc = "done" =>
        \A f \in 1..top :
            \E j \in 1..Len(resolved) :
                /\ resolved[j].c = f
                /\ \A m \in Members(f) : accum[m] = resolved[j].sum

\* the part of C2 the sweep keeps: a region that was resolved holds its zonal
\* sum in every member cell from then on
C2_ResolvedMembersKeepZonalSum ==
    \A j \in 1..Len(resolved) :
        \A m \in Members(resolved[j].c) : accum[m] = resolved[j].sum

\* ------------------------------------------------------------------- C3
\* C3: the visiting order is a permutation of exactly the interior cells,
\* index i standing for row i mod (R-2), column i div (R-2) of the interior,
\* and the cells of one flat region occupy consecutive positions in it.
C3_OrderIsContiguousPermutation ==
    pc # "start" =>
        LET nr == Rows(elev) - 2
            n == nr * (Cols(elev) - 2)
            cell(i) == <<1 + (i % nr), 1 + (i \div nr)>>
        IN /\ DOMAIN Order = 0..(n - 1)
           /\ {Order[p] : p \in 0..(n - 1)} = 0..(n - 1)
           /\ {cell(i) : i \in 0..(n - 1)} = Interior(elev)
           /\ \A i \in 0..(n - 1) :
                 /\ combo[i] = <<elev[cell(i)], flats[cell(i)]>>
                 /\ Centre(i, nrows) = cell(i)
           /\ \A p, q \in 0..(n - 1) :
                 (p < q /\ combo[Order[p]][2] # 0
                        /\ combo[Order[p]][2] = combo[Order[q]][2])
                 => \A r \in p..q : combo[Order[r]][2] = combo[Order[p]][2]

\* a grid with two interior rows or more in which a flat region of several
\* cells shares its elevation with an ordinary interior cell
C3_Witness ==
    /\ pc = "loop"
    /\ nrows >= 2
    /\ \E c, d, o \in Interior(elev) :
          /\ c # d /\ flats[c] # 0 /\ flats[c] = flats[d]
          /\ flats[o] = 0 /\ elev[o] = elev[c]

\* ------------------------------------------------------------------- C4
\* the loop is about to distribute the flow of an ordinary cell
AtOrdinary == InLoop /\ combo[CurI][2] = 0 /\ ~Truthy(curC)

\* C4: when an ordinary cell is processed every interior cell strictly higher
\* has been visited and every flat region at least as high has been resolved;
\* once an ordinary cell has distributed, no later step changes its value.
C4_ContributorsDoneBeforeCell ==
    [][/\ AtOrdinary =>
            LET c == CellAt(k)
            IN /\ \A d \in Interior(elev) : elev[d] > elev[c] => d \in Visited
               /\ \A d \in Interior(elev) :
                     (flats[d] # 0 /\ elev[d] >= elev[c]) => flats[d] \in ResolvedIds
       /\ \A c \in Visited : flats[c] = 0 => accum'[c] = accum[c]]_vars

\* the sweep is over, a flat was resolved, and an ordinary interior cell below
\* another interior cell ends with more than its own unit of flow
C4_Witness ==
    /\ pc = "done"
    /\ Len(resolved) > 0
    /\ \E c, d \in Interior(elev) :
          flats[c] = 0 /\ elev[d] > elev[c] /\ accum[c] # One

\* ------------------------------------------------------------------- C5
\* the exterior neighbours of region f that are no higher than e
PourPoints(e, f) ==
    {c \in DOMAIN elev \ Members(f) :
        elev[c] <= e /\ \E m \in Members(f) : Adjacent(c, m)}

\* this step calls flatThing
IsCall == resolved' # resolved

LastCall == resolved'[Len(resolved')]

\* C5: a flatThing call on a region with a pour point adds zonalSum / (number
\* of pour points) to every pour point, the region's zonal sum in total.
C5_PourPointsShareZonalSum ==
    [][IsCall =>
          LET P == PourPoints(LastCall.e, LastCall.c)
              z == LastCall.sum
          IN P # {} =>
                /\ \A q \in P :
                      accum'[q] = RAdd(accum[q], RDiv(z, FromInt(Cardinality(P))))
                /\ RSum(accum', P) = RAdd(RSum(accum, P), z)]_vars

\* a resolved region with several pour points and an exterior neighbour that
\* is none
C5_Witness ==
    \E j \in 1..Len(resolved) :
        LET P == PourPoints(resolved[j].e, resolved[j].c)
        IN /\ Cardinality(P) >= 2
           /\ resolved[j].sum # One
           /\ \E c \in DOMAIN elev \ (P \cup Members(resolved[j].c)) :
                 \E m \in Members(resolved[j].c) : Adjacent(c, m)

\* ------------------------------------------------------------------- C6
\* max(0, E[c] - E[n])
Drop(c, n) == IF elev[c] > elev[n] THEN elev[c] - elev[n] ELSE 0

TotalDrop(c) ==
    LET drop == [n \in Window(elev, c) |-> Drop(c, n)] IN ISum(drop, DOMAIN drop)

\* this step distributes the flow of an ordinary cell
IsDistribution == AtOrdinary /\ k' = k + 1

\* C6: an ordinary cell with total drop > 0 gives every cell n of its window
\* A[centre] * drop[n] / total, keeps its own value, and gives its
\* neighbours its accumulated value in total.
C6_ProportionalSplit ==
    [][IsDistribution =>
          LET c == CellAt(k)
              total == TotalDrop(c)
              N == Window(elev, c) \ {c}
          IN total > 0 =>
                /\ \A n \in Window(elev, c) :
                      accum'[n] = RAdd(accum[n],
                                       RDiv(RMul(accum[c], FromInt(Drop(c, n))),
                                            FromInt(total)))
                /\ accum'[c] = accum[c]
                /\ RSum(accum', N) = RAdd(RSum(accum, N), accum[c])]_vars

\* a visited ordinary cell with a neighbour level with it and neighbours at
\* two different depths below it
C6_Witness ==
    \E c \in Visited :
        /\ flats[c] = 0
        /\ \E n, m, h \in Window(elev, c) :
              elev[n] < elev[m] /\ elev[m] < elev[c] /\ elev[h] = elev[c] /\ h # c

\* ------------------------------------------------------------------- C7
\* C7: resolving a region without pour points distributes nothing: every cell
\* outside the region keeps its value, no non-finite value is stored, and
\* the sweep goes on.
C7_NoPourPointNoFlow ==
    [][(IsCall /\ PourPoints(LastCall.e, LastCall.c) = {}) =>
          /\ \A c \in DOMAIN elev \ Members(LastCall.c) : accum'[c] = accum[c]
          /\ \A c \in DOMAIN elev : IsFinite(accum'[c])
          /\ pc' = "loop"
          /\ k' <= k + 1]_vars

\* the sweep has returned after resolving a region without pour points
C7_Witness ==
    /\ pc = "done"
    /\ \E j \in 1..Len(resolved) : PourPoints(resolved[j].e, resolved[j].c) = {}

\* ------------------------------------------------------------------- C8
\* c and d touch: they differ and are 8-neighbours
Touch(c, d) ==
    /\ c # d
    /\ c[1] <= d[1] + 1 /\ d[1] <= c[1] + 1
    /\ c[2] <= d[2] + 1 /\ d[2] <= c[2] + 1

RECURSIVE Linked(_, _, _)
\* some cell of D is reached from the cells S through touching cells of L
Linked(S, D, L) ==
    IF S \cap D # {} THEN TRUE
    ELSE LET T == {d \in L \ S : \E c \in S : Touch(c, d)}
         IN IF T = {} THEN FALSE ELSE Linked(S \cup T, D, L)

\* C8: labelFlats gives a positive id to exactly the interior cells whose 8
\* neighbours are all >= them and 0 to every other cell, the border included;
\* two labelled cells share an id iff labelled cells connect them under
\* 8-connectivity.
C8_LabelsAreComponents ==
    pc # "start" =>
        LET L == {c \in DOMAIN elev : flats[c] # 0}
        IN /\ \A c \in DOMAIN elev :
                 /\ flats[c] >= 0
                 /\ flats[c] > 0 <=>
                       /\ c \in Interior(elev)
                       /\ \A n \in DOMAIN elev : Touch(c, n) => elev[n] >= elev[c]
           /\ \A c \in Border(elev) : flats[c] = 0
           /\ \A c, d \in L : flats[c] = flats[d] <=> Linked({c}, {d}, L)
           /\ {flats[c] : c \in L} = 1..top

\* two flat regions of different elevations, labelled apart
C8_Witness ==
    /\ pc = "loop"
    /\ \E c, d \in Interior(elev) :
          /\ flats[c] # 0 /\ flats[d] # 0
          /\ flats[c] # flats[d]
          /\ elev[c] # elev[d]

\* ------------------------------------------------------------------- C9
Corners == {c \in DOMAIN elev : c[1] \in {0, Rows(elev) - 1} /\ c[2] \in {0, Cols(elev) - 1}}

\* a 5x5 grid, flat but for the corner q, which is strictly lower
ScenarioA(q) ==
    /\ Rows(elev) = 5 /\ Cols(elev) = 5
    /\ q \in Corners
    /\ \A c, d \in DOMAIN elev \ {q} : elev[c] = elev[d]
    /\ \A c \in DOMAIN elev \ {q} : elev[q] < elev[c]

\* C9 as stated: in scenario A the corner is the sole pour point of the flat
\* region and receives the region's whole zonal sum.
C9_CornerTakesWholeZonalSum ==
    \A q \in DOMAIN elev :
        (pc = "done" /\ ScenarioA(q)) =>
            /\ Len(resolved) = 1
            /\ PourPoints(resolved[1].e, resolved[1].c) = {q}
            /\ accum[q] = RAdd(One, resolved[1].sum)

\* C9 as the sweep computes it: the region is the 8 interior cells that do not
\* touch the corner, its zonal sum 8 is split evenly over 16 pour points (the
\* 15 other border cells and the interior cell touching the corner), the
\* corner is no pour point, and it ends with 5/2: its own unit and the 3/2
\* the interior cell touching it passes on.
C9_ZonalSumSplitOverSixteen ==
    \A q \in DOMAIN elev :
        (pc = "done" /\ ScenarioA(q)) =>
            LET inner == CHOOSE c \in Interior(elev) : Touch(c, q)
                P == (Border(elev) \ {q}) \cup {inner}
            IN /\ Len(resolved) = 1
               /\ Members(resolved[1].c) = Interior(elev) \ {inner}
               /\ resolved[1].sum = FromInt(8)
               /\ PourPoints(resolved[1].e, resolved[1].c) = P
               /\ Cardinality(P) = 16
               /\ \A c \in Members(resolved[1].c) : accum[c] = FromInt(8)
               /\ \A c \in P : accum[c] = <<3, 2>>
               /\ accum[q] = <<5, 2>>

\* the sweep has returned on a grid of scenario A
C9_Witness == pc = "done" /\ \E q \in DOMAIN elev : ScenarioA(q)

\* ------------------------------------------------------------------ C10
\* C10: no border cell is the centre of a distribution or a member of a
\* resolved region, and a border cell's value changes only by a deposit from
\* an interior cell: a distribution centred on an interior neighbour above
\* it, or the resolution of a region it is a pour point of.
C10_BorderNeverSource ==
    [][pc = "loop" =>
          /\ IsDistribution => Centre(CurI, nrows) \in Interior(elev)
          /\ IsCall => Members(LastCall.c) \subseteq Interior(elev)
          /\ \A b \in Border(elev) :
                accum'[b] # accum[b] =>
                    \/ /\ IsDistribution
                       /\ Centre(CurI, nrows) \in Interior(elev)
                       /\ Touch(b, Centre(CurI, nrows))
                       /\ elev[b] < elev[Centre(CurI, nrows)]
                    \/ /\ IsCall
                       /\ b \in PourPoints(LastCall.e, LastCall.c)]_vars

\* the sweep has returned; one border cell took flow from a distribution and
\* another from a flat region
C10_Witness ==
    /\ pc = "done"
    /\ \E b \in Border(elev) :
          /\ accum[b] # One
          /\ \E c \in Interior(elev) : flats[c] = 0 /\ Touch(b, c) /\ elev[b] < elev[c]
    /\ \E b \in Border(elev) :
          \E j \in 1..Len(resolved) : b \in PourPoints(resolved[j].e, resolved[j].c)

\* ------------------------------------------------------------------ C11
\* C11: flatThing is called at most once for a flat id, and only after every
\* member cell of that region has been visited; an ordinary cell distributes
\* only with the cursor cleared.
C11_ResolveOncePerRegion ==
    [][/\ IsCall =>
            /\ LastCall.c \notin ResolvedIds
            /\ Members(LastCall.c) # {}
            /\ Members(LastCall.c) \subseteq Visited
       /\ (InLoop /\ combo[CurI][2] = 0 /\ k' = k + 1) =>
            curC = None /\ curC' = None]_vars

\* the sweep has returned with the cursor cleared, after an ordinary cell
\* closed a region of several cells
C11_Witness ==
    /\ pc = "done"
    /\ curC = None
    /\ \E j \in 1..Len(resolved) : Cardinality(Members(resolved[j].c)) >= 2

\* ------------------------------------------------------------------ C12
\* the cursor and every call so far carry the elevation of all the members
\* of their region
CursorMatchesRegion ==
    /\ \A c, d \in DOMAIN flats :
          (flats[c] # 0 /\ flats[c] = flats[d]) => elev[c] = elev[d]
    /\ curC # None =>
          /\ curC[2] > 0
          /\ Members(curC[2]) # {}
          /\ \A m \in Members(curC[2]) : elev[m] = curC[1]
    /\ \A j \in 1..Len(resolved) :
          /\ Members(resolved[j].c) # {}
          /\ \A m \in Members(resolved[j].c) : elev[m] = resolved[j].e

\* C12: the cells of one flat id have one elevation; the cursor InFlat(e, f)
\* and every call resolve(e, f) carry the elevation of the members of f, and
\* a call closes the region of the cursor, never that of the cell just met.
C12_CursorIsRegionBeingClosed ==
    [][/\ pc # "start" => CursorMatchesRegion
       /\ pc' # "start" => CursorMatchesRegion'
       /\ IsCall =>
            /\ LastCall.c = curC[2] /\ LastCall.e = curC[1]
            /\ LastCall.c # combo[CurI][2]
            /\ \A m \in Members(curC[2]) :
                  accum'[m] = RSum(accum, Members(curC[2]))
            /\ flats[CellAt(k)] # 0 => accum'[CellAt(k)] = accum[CellAt(k)]]_vars

\* a region was closed by a flat cell of another region and elevation
C12_Witness ==
    /\ curC # None
    /\ \E j \in 1..Len(resolved) :
          /\ resolved[j].c # curC[2]
          /\ resolved[j].e # curC[1]

\* ------------------------------------------------------------------ C13
\* C13: every interior cell with flat id 0 has a strictly lower 8-neighbour,
\* so the total drop of every ordinary cell the sweep processes is > 0 and
\* no division by zero puts a nan into the grid.
C13_OrdinaryCellHasDrop ==
    pc # "start" =>
        /\ \A c \in Interior(elev) :
              flats[c] = 0 => \E n \in DOMAIN elev : Touch(c, n) /\ elev[n] < elev[c]
        /\ AtOrdinary =>
              LET diff == Diff(elev, Centre(CurI, nrows))
              IN /\ ISum(diff, DOMAIN diff) > 0
                 /\ TotalDrop(CellAt(k)) > 0
        /\ \A c \in DOMAIN accum : IsFinite(accum[c])

\* an ordinary cell with a single lower neighbour, on a grid that is not
\* filled, has been processed
C13_Witness ==
    /\ \E c \in Visited :
          /\ flats[c] = 0
          /\ Cardinality({n \in DOMAIN elev : Touch(c, n) /\ elev[n] < elev[c]}) = 1
    /\ \E f \in 1..top : PourPoints(elev[CHOOSE m \in Members(f) : TRUE], f) = {}

\* ------------------------------------------------------------------ C14
\* C14: a cell that receives flow from a flatThing call is a cell of flat id
\* 0 whose elevation equals the flat's: never a member of another region,
\* never a cell strictly lower than the flat.
C14_PourPointsLevelAndOrdinary ==
    [][IsCall =>
          \A c \in DOMAIN elev \ Members(LastCall.c) :
              accum'[c] # accum[c] => (flats[c] = 0 /\ elev[c] = LastCall.e)]_vars

\* a resolved region with a border and an interior pour point, next to a
\* higher cell, on a grid with a cell below the region
C14_Witness ==
    \E j \in 1..Len(resolved) :
        LET P == PourPoints(resolved[j].e, resolved[j].c)
        IN /\ P \cap Border(elev) # {}
           /\ P \cap Interior(elev) # {}
           /\ \E c \in DOMAIN elev : elev[c] < resolved[j].e
           /\ \E c \in DOMAIN elev, m \in Members(resolved[j].c) :
                 Touch(c, m) /\ elev[c] > resolved[j].e

\* ------------------------------------------------------------------ C15
\* x <= y for finite rationals with positive denominators
RLeq(x, y) == x[1] * y[2] <= y[1] * x[2]

\* C15: accum starts at 1 in every cell and no step of the sweep, the
\* resolution of a region without pour points included, lowers the value
\* of a cell; so every cell holds at least 1 throughout.
C15_AccumNeverDecreases ==
    [][/\ pc' # "start" =>
            \A c \in DOMAIN elev : IsFinite(accum'[c]) /\ RLeq(One, accum'[c])
       /\ pc = "start" => \A c \in DOMAIN elev : accum'[c] = One
       /\ pc = "loop" =>
            \A c \in DOMAIN elev : IsFinite(accum[c]) /\ RLeq(accum[c], accum'[c])]_vars

\* the sweep has returned after distributing from ordinary cells, resolving
\* a region with pour points and resolving one without
C15_Witness ==
    /\ pc = "done"
    /\ \E c \in Interior(elev) : flats[c] = 0
    /\ \E j \in 1..Len(resolved) : PourPoints(resolved[j].e, resolved[j].c) = {}
    /\ \E c \in DOMAIN elev : accum[c] # One

\* ------------------------------------------------------------------ C16
\* the shapes on which every admissible visiting order is explored
ShapesAny == {<<3, 5, 3>>, <<4, 4, 2>>}

IsInputAny(g) ==
    \E sh \in ShapesAny, base \in 0..MaxElev :
        \E S \in UpTo(Cells(sh[1], sh[2]), sh[3]) :
            \E odd \in [S -> (0..MaxElev) \ {base}] :
                g = Plateau(sh[1], sh[2], base, odd)

\* ord visits every index once, elevation never rising, the cells of a flat
\* region together, and flat cells before ordinary cells of their elevation
Admissible(ord, cmb) ==
    LET n == Cardinality(DOMAIN cmb)
    IN /\ {ord[p] : p \in 0..(n - 1)} = 0..(n - 1)
       /\ \A p, q \in 0..(n - 1) :
             p < q =>
                /\ cmb[ord[p]][1] >= cmb[ord[q]][1]
                /\ (cmb[ord[p]][1] = cmb[ord[q]][1] /\ cmb[ord[p]][2] = 0)
                      => cmb[ord[q]][2] = 0
                /\ (cmb[ord[p]][2] # 0 /\ cmb[ord[p]][2] = cmb[ord[q]][2])
                      => \A r \in p..q : cmb[ord[r]][2] = cmb[ord[p]][2]

InitAny ==
    /\ IsInputAny(elev)
    /\ flats = <<>>
    /\ top = 0
    /\ combo = <<>>
    /\ indexArray = <<>>
    /\ nrows = 0
    /\ accum = <<>>
    /\ curC = None
    /\ k = 0
    /\ pc = "start"
    /\ resolved = <<>>

\* lines 116-125 with the visiting order any admissible one
SetupAny ==
    /\ pc = "start"
    /\ LET lab == labelFlats(elev)
           cmb == LET flatArray == FlattenF(elev)
                      flatFlats == FlattenF(lab[1])
                  IN [i \in DOMAIN flatArray |-> <<flatArray[i], flatFlats[i]>>]
       IN /\ flats' = lab[1]
          /\ top' = lab[2]
          /\ combo' = cmb
          /\ \E ord \in [DOMAIN cmb -> DOMAIN cmb] :
                /\ Admissible(ord, cmb)
                /\ indexArray' = Reversed(ord)
    /\ nrows' = Rows(elev) - 2
    /\ accum' = [c \in DOMAIN elev |-> One]
    /\ curC' = None
    /\ k' = 0
    /\ pc' = "loop"
    /\ UNCHANGED <<elev, resolved>>

NextAny == SetupAny \/ FlatSwitch \/ FlatTrack \/ CloseFlat \/ Ordinary \/ Return

SpecAny == InitAny /\ [][NextAny]_vars

RECURSIVE Sweep(_, _, _, _)
\* lines 126-150 as a function: the grid and the cursor the loop ends with
\* when it takes the entries ord[kk], ord[kk+1], ... from acc and cur
Sweep(ord, kk, cur, acc) ==
    IF kk = NCells THEN <<acc, cur>>
    ELSE LET i == ord[kk]
         IN IF combo[i][2] # 0
            THEN IF Truthy(cur) /\ cur[2] # combo[i][2]
                 THEN Sweep(ord, kk + 1, combo[i], flatThing(cur, flats, acc, elev))
                 ELSE Sweep(ord, kk + 1, combo[i], acc)
            ELSE LET acc1 == IF Truthy(cur) THEN flatThing(cur, flats, acc, elev)
                             ELSE acc
                 IN Sweep(ord, kk + 1, None,
                          Distribute(acc1, elev, Centre(i, nrows)))

\* what multipath returns on elev, with the cursor it ends on
CodeResult ==
    Sweep(Reversed(ArgSort(combo)), 0, None, [c \in DOMAIN elev |-> One])

\* the grid once a region still open has been resolved
Closed(r) == IF Truthy(r[2]) THEN flatThing(r[2], flats, r[1], elev) ELSE r[1]

\* C16: the result depends on the elevation grid alone: every visiting order
\* that is elevation-descending, keeps the flat regions together and puts
\* flat cells before ordinary cells of their elevation ends with the grid
\* that multipath returns.
C16_ResultIndependentOfOrder ==
    pc = "done" => accum = CodeResult[1]

\* the part of C16 the sweep keeps: once the region left open is resolved,
\* every admissible order ends with the same grid
C16_ClosedResultIndependentOfOrder ==
    pc = "done" => Closed(<<accum, curC>>) = Closed(CodeResult)

\* the actions of the sweep and its reading as a function agree
C16_SweepIsTheLoop ==
    pc = "done" => <<accum, curC>> = CodeResult
====
